---- MODULE Spec2Model ----
(***************************************************************************)
(* The whiteboard editor (WhiteboardEditor component): the element list,   *)
(* the linear undo/redo history, the pointer-input state machine and the   *)
(* view transform, as a state machine with one action per event handler.   *)
(*                                                                         *)
(* Each handler runs to completion on the UI thread and React re-renders   *)
(* before the next event is dispatched, so a handler is one atomic step    *)
(* that reads the state of the last render and writes the next one.        *)
(*                                                                         *)
(* JavaScript numbers are modelled as exact rationals <<n, d>> (d > 0, in  *)
(* lowest terms); floating-point rounding is not modelled.  Array indices  *)
(* are 0-based as in the source: At(a, i) is a[i].                         *)
(***************************************************************************)
EXTENDS Integers, Sequences, FiniteSets, TLC

VARIABLES
    whiteboard,     \* the `whiteboard` prop the editor was opened with
    elements,       \* useState: the current element list
    history,        \* useState: list of element-list snapshots
    historyIndex,   \* useState: 0-based pointer into history
    zoom,           \* useState: zoom factor (rational)
    pan,            \* useState: pan offset {x, y} (rationals)
    isDrawing,      \* useState
    isPanning,      \* useState
    lastPoint,      \* useState: {x, y} or null
    currentPath,    \* useState: list of {x, y}
    currentTool,    \* useState
    currentColor,   \* useState
    currentSize,    \* useState
    canvasSize,     \* useState: {width, height} of the canvas backing store
    saveCalls,      \* the onSave calls made so far, each with its outcome
    now,            \* Date.now(), in milliseconds
    painted,        \* what the last repaint drew, one entry per element
    gesture,        \* history variable: the pointer gesture in progress
    scenario,       \* history variable: completed stroke/shape gestures (+ undos) since open
    uiChanges       \* history variable: number of view/style changes so far

vars == <<whiteboard, elements, history, historyIndex, zoom, pan, isDrawing,
          isPanning, lastPoint, currentPath, currentTool, currentColor,
          currentSize, canvasSize, saveCalls, now, painted, gesture, scenario,
          uiChanges>>

docVars == <<elements, history, historyIndex>>
viewVars == <<zoom, pan>>
inputVars == <<isDrawing, isPanning, lastPoint, currentPath>>
styleVars == <<currentTool, currentColor, currentSize>>
\* the host's record of saves, the clock and the canvas pixels
hostVars == <<saveCalls, now, painted>>

-----------------------------------------------------------------------------
(* Bounds of the exploration *)

\* longest history the model lets a commit produce
MaxHistory == 3
\* pointer-moves recorded per gesture
MaxMoves == 1
\* view and style changes (zoom, pan, reset, colour, size) per session
MaxUiChanges == 1
\* presses of the Save button per session
MaxSaves == 1
\* clock ticks per session
MaxTicks == 8

-----------------------------------------------------------------------------
(* JavaScript values *)

\* JavaScript null, where a {x, y} object is expected
NULL == [null |-> TRUE]

Abs(n) == IF n < 0 THEN -n ELSE n

RECURSIVE GCD(_, _)
GCD(a, b) == IF b = 0 THEN a ELSE GCD(b, a % b)

\* the rational n/d in lowest terms with a positive denominator (d # 0)
Rat(n, d) ==
    LET g == GCD(Abs(n), Abs(d))
        s == IF d < 0 THEN -1 ELSE 1
    IN  <<(s * n) \div g, (s * d) \div g>>

RInt(n) == <<n, 1>>
RAdd(a, b) == Rat(a[1] * b[2] + b[1] * a[2], a[2] * b[2])
RSub(a, b) == Rat(a[1] * b[2] - b[1] * a[2], a[2] * b[2])
RMul(a, b) == Rat(a[1] * b[1], a[2] * b[2])
RDiv(a, b) == Rat(a[1] * b[2], a[2] * b[1])
RLess(a, b) == a[1] * b[2] < b[1] * a[2]
RMax(a, b) == IF RLess(a, b) THEN b ELSE a
RMin(a, b) == IF RLess(b, a) THEN b ELSE a

Zero == RInt(0)
One == RInt(1)

Pt(x, y) == [x |-> x, y |-> y]

\* a[i] for a 0-based index i
At(a, i) == a[i + 1]

\* a.slice(0, n) for 0 <= n
Slice0(a, n) == SubSeq(a, 1, IF n < Len(a) THEN n ELSE Len(a))

\* JSON.stringify of a list of {x, y} points, and JSON.parse of that text.  The
\* text is kept as a tagged value: stringify is injective on finite numbers.
JSONstringify(path) == [json |-> path]
JSONparse(text) == text.json

\* a stored text that is not JSON; JSON.parse throws a SyntaxError on it
Malformed == [text |-> "[{"]
JSONparseThrows(text) == "json" \notin DOMAIN text

-----------------------------------------------------------------------------
(* Tools, colours, sizes *)

Tools == {"cursor", "pen", "highlighter", "spray", "calligraphy", "eraser",
          "text", "sticky", "rectangle", "roundedRect", "circle", "triangle",
          "arrow", "line", "hand", "laser"}

Freehand == {"pen", "highlighter", "spray", "calligraphy"}

ShapeTools == {"rectangle", "roundedRect", "circle", "triangle", "arrow", "line"}

\* the toolbar buttons the exploration presses
ToolChoices == {"pen", "rectangle", "hand"}
ColorChoices == {"#000000", "#FF0000"}
SizeChoices == {3, 10}

\* pointer positions relative to the canvas origin, in CSS pixels
ScreenPoints == {Pt(10, 10), Pt(110, 60)}

\* canvas.width / rect.width: the canvas fills its container
ScaleChoices == {One}

-----------------------------------------------------------------------------
(* Persisted documents the editor may be opened with *)

LoadedStroke ==
    [type |-> "pen",
     position |-> Pt(RInt(10), RInt(10)),
     size |-> [width |-> 0, height |-> 0],
     content |-> JSONstringify(<<Pt(RInt(10), RInt(10)), Pt(RInt(110), RInt(60))>>),
     style |-> [color |-> "#000000", backgroundColor |-> "transparent",
                strokeWidth |-> 3, opacity |-> One],
     zIndex |-> 0]

\* the size of the editor's container: the canvas is sized to it on mount
ContainerSize == [width |-> 800, height |-> 600]

\* the sizes the container is resized between
ContainerSizes == {ContainerSize, [width |-> 1024, height |-> 768]}

\* Date.now() when the editor is opened
OpenTime == 10000

\* a whiteboard record created from a template and saved with `els` on it
Board(els) ==
    [id |-> "wb-1",
     name |-> "Whiteboard 1",
     location |-> "My Whiteboards",
     updatedAt |-> 0,
     content |-> [elements |-> els,
                  canvasSize |-> [width |-> 2000, height |-> 1500],
                  zoom |-> One,
                  pan |-> Pt(Zero, Zero)]]

Whiteboards == { Board(els) : els \in {<<>>, <<LoadedStroke>>} }

-----------------------------------------------------------------------------
(* Pure parts of the handlers *)

getMousePos(s, scaleX, scaleY, z, p) ==
    [x |-> RDiv(RSub(RMul(RInt(s.x), scaleX), p.x), z),
     y |-> RDiv(RSub(RMul(RInt(s.y), scaleY), p.y), z)]

\* handleMouseUp commits the accumulated path when it holds more than one point
pathCommits_single(path) == Len(path) > 0

pathCommits(path) == Len(path) > 1

newElement_lastPoint(path, tool, color, size, els) ==
    [type |-> tool,
     position |-> At(path, Len(path) - 1),
     size |-> [width |-> 0, height |-> 0],
     content |-> JSONstringify(path),
     style |-> [color |-> color, backgroundColor |-> "transparent",
                strokeWidth |-> size,
                opacity |-> IF tool = "highlighter" THEN Rat(1, 2) ELSE One],
     zIndex |-> Len(els)]

\* the element handleMouseUp builds from the accumulated path
newElement_zIndexFromOne(path, tool, color, size, els) ==
    [type |-> tool,
     position |-> At(path, 0),
     size |-> [width |-> 0, height |-> 0],
     content |-> JSONstringify(path),
     style |-> [color |-> color, backgroundColor |-> "transparent",
                strokeWidth |-> size,
                opacity |-> IF tool = "highlighter" THEN Rat(1, 2) ELSE One],
     zIndex |-> Len(els) + 1]

newElement(path, tool, color, size, els) ==
    [type |-> tool,
     position |-> At(path, 0),
     size |-> [width |-> 0, height |-> 0],
     content |-> JSONstringify(path),
     style |-> [color |-> color, backgroundColor |-> "transparent",
                strokeWidth |-> size,
                opacity |-> IF tool = "highlighter" THEN Rat(1, 2) ELSE One],
     zIndex |-> Len(els)]

addToHistory_pointerPastEnd(h, hi, newElements) ==
    LET newHistory == Append(Slice0(h, hi + 1), newElements)
    IN  [history |-> newHistory, historyIndex |-> Len(newHistory)]

addToHistory_noTruncate(h, hi, newElements) ==
    LET newHistory == Append(h, newElements)
    IN  [history |-> newHistory, historyIndex |-> Len(newHistory) - 1]

\* addToHistory: the new history and pointer
addToHistory(h, hi, newElements) ==
    LET newHistory == Append(Slice0(h, hi + 1), newElements)
    IN  [history |-> newHistory, historyIndex |-> Len(newHistory) - 1]

undo_keepsElements(h, hi, els) ==
    IF hi > 0
    THEN [historyIndex |-> hi - 1, elements |-> els]
    ELSE [historyIndex |-> hi, elements |-> els]

\* undo: the new pointer and element list
undo(h, hi, els) ==
    IF hi > 0
    THEN [historyIndex |-> hi - 1, elements |-> At(h, hi - 1)]
    ELSE [historyIndex |-> hi, elements |-> els]

redo_keepsElements(h, hi, els) ==
    IF hi < Len(h) - 1
    THEN [historyIndex |-> hi + 1, elements |-> els]
    ELSE [historyIndex |-> hi, elements |-> els]

redo_pastEnd(h, hi, els) ==
    IF hi <= Len(h) - 1
    THEN [historyIndex |-> hi + 1,
          elements |-> IF hi + 1 < Len(h) THEN At(h, hi + 1) ELSE <<>>]
    ELSE [historyIndex |-> hi, elements |-> els]

\* redo: the new pointer and element list
redo(h, hi, els) ==
    IF hi < Len(h) - 1
    THEN [historyIndex |-> hi + 1, elements |-> At(h, hi + 1)]
    ELSE [historyIndex |-> hi, elements |-> els]

\* redrawCanvas: context.scale(zoom, zoom) then context.translate(pan.x, pan.y);
\* the canvas pixel at which the document point d is painted
redrawCanvasTransform(d, z, p) ==
    [x |-> RMul(z, RAdd(d.x, p.x)), y |-> RMul(z, RAdd(d.y, p.y))]

zoomOut_unclamped(z) == RSub(z, Rat(1, 10))

zoomOut(z) == RMax(Rat(1, 10), RSub(z, Rat(1, 10)))
zoomIn(z) == RMin(RInt(3), RAdd(z, Rat(1, 10)))

updatedWhiteboard_openTimeElements(wb, els, z, p, cs, t) ==
    [wb EXCEPT !.content = [@ EXCEPT !.zoom = z, !.pan = p, !.canvasSize = cs],
               !.updatedAt = t]

\* handleSave: the record handed to onSave
updatedWhiteboard(wb, els, z, p, cs, t) ==
    [wb EXCEPT !.content = [@ EXCEPT !.elements = els, !.zoom = z, !.pan = p,
                                     !.canvasSize = cs],
               !.updatedAt = t]

\* the lifetime of a laser mark, in milliseconds
maxAge == 3000

drawLaser_neverExpires(element, t) ==
    LET stamp == IF "timestamp" \in DOMAIN element /\ element.timestamp # 0
                 THEN element.timestamp ELSE t
        age == t - stamp
    IN  [painted |-> TRUE, globalAlpha |-> RMax(Zero, RSub(One, Rat(age, maxAge)))]

drawLaser_agesSinceOpen(element, t) ==
    LET stamp == IF "timestamp" \in DOMAIN element /\ element.timestamp # 0
                 THEN element.timestamp ELSE OpenTime
        age == t - stamp
    IN  IF age > maxAge
        THEN [painted |-> FALSE]
        ELSE [painted |-> TRUE,
              globalAlpha |-> RMax(Zero, RSub(One, Rat(age, maxAge)))]

\* drawLaser at Date.now() = t: whether the mark is painted, and how opaque.
\* `element.timestamp || now`: a missing or zero timestamp counts as now.
drawLaser(element, t) ==
    LET stamp == IF "timestamp" \in DOMAIN element /\ element.timestamp # 0
                 THEN element.timestamp ELSE t
        age == t - stamp
    IN  IF age > maxAge
        THEN [painted |-> FALSE]
        ELSE [painted |-> TRUE,
              globalAlpha |-> RMax(Zero, RSub(One, Rat(age, maxAge)))]

\* drawPath: whether the stored path is stroked
drawPath(element) ==
    IF element.content = NULL THEN FALSE
    ELSE Len(JSONparse(element.content)) >= 2

\* drawPath parses the stored path outside any try block
drawPathThrows(element) ==
    element.content # NULL /\ JSONparseThrows(element.content)

\* the element types with a case in drawElement's switch
PaintedTypes == Freehand \cup {"text", "sticky", "shape", "laser"}

\* drawElement at Date.now() = t; `style.opacity || 1`
drawElement(element, t) ==
    LET alpha == IF element.style.opacity = Zero THEN One ELSE element.style.opacity
    IN  IF element.type = "laser" THEN drawLaser(element, t)
        ELSE IF element.type \in Freehand
        THEN [painted |-> drawPath(element), globalAlpha |-> alpha]
        ELSE [painted |-> element.type \in PaintedTypes, globalAlpha |-> alpha]

drawElementThrows(element) ==
    element.type \in Freehand /\ drawPathThrows(element)

\* the elements redrawCanvas's forEach passes to drawElement before one throws
redrawCanvasReach(els) ==
    LET thrown == {k \in 1..Len(els) : drawElementThrows(els[k])}
    IN  IF thrown = {} THEN Len(els)
        ELSE (CHOOSE k \in thrown : \A j \in thrown : k <= j) - 1

\* redrawCanvas at Date.now() = t: what is drawn for each element, in order
redrawCanvas(els, t) ==
    [k \in 1..redrawCanvasReach(els) |-> drawElement(els[k], t)]

\* redrawCanvas returns normally: no drawElement call threw
redrawCanvasCompletes(els) == redrawCanvasReach(els) = Len(els)

\* the canvas after redrawCanvas ran at time t with els, z and p in its closure
Paint(els, z, p, t) ==
    [at |-> t, elements |-> els, zoom |-> z, pan |-> p,
     marks |-> redrawCanvas(els, t), completed |-> redrawCanvasCompletes(els)]

-----------------------------------------------------------------------------
(* History variables *)

NoGesture == [open |-> FALSE]

\* A gesture is open from a pointer-down to the next pointer-up or -leave.  It is
\* clean when it began with the machine idle and the tool has not been changed
\* since; a clean gesture records the document-space position of its
\* pointer-down and of every pointer-move since, any other gesture only whether
\* the pointer has moved.
CleanGesture(pos) == [open |-> TRUE, clean |-> TRUE, pts |-> <<pos>>]
OtherGesture(moved) == [open |-> TRUE, clean |-> FALSE, moved |-> moved]

Clean == gesture.open /\ gesture.clean

\* the pointer has moved since the pointer-down
Dragged ==
    /\ gesture.open
    /\ IF gesture.clean THEN Len(gesture.pts) > 1 ELSE gesture.moved

\* a clean drag made with one of `tools`
CleanDrag(tools) == Clean /\ Dragged /\ currentTool \in tools

OffScenario == [on |-> FALSE]

-----------------------------------------------------------------------------
(* Initial state: the editor has just been opened on a whiteboard *)

\* the editor's first render on the record wb
Opened(wb) ==
    /\ whiteboard = wb
    /\ elements = whiteboard.content.elements
    /\ history = <<whiteboard.content.elements>>
    /\ historyIndex = 0
    /\ zoom = whiteboard.content.zoom
    /\ pan = whiteboard.content.pan
    /\ isDrawing = FALSE
    /\ isPanning = FALSE
    /\ lastPoint = NULL
    /\ currentPath = <<>>
    /\ currentTool = "pen"
    /\ currentColor = "#000000"
    /\ currentSize = 3
    /\ canvasSize = ContainerSize
    /\ saveCalls = <<>>
    /\ now = OpenTime
    /\ painted = Paint(wb.content.elements, wb.content.zoom, wb.content.pan, OpenTime)
    /\ gesture = NoGesture
    /\ scenario = [on |-> TRUE, gestures |-> 0, undos |-> 0]
    /\ uiChanges = 0

Init == \E wb \in Whiteboards : Opened(wb)

-----------------------------------------------------------------------------
(* Event handlers: what each does to the component's state *)

\* onMouseDown, the pointer at screen point s
handleMouseDown(s, scaleX, scaleY) ==
    LET pos == getMousePos(s, scaleX, scaleY, zoom, pan) IN
    /\ lastPoint' = pos
    /\ IF currentTool = "hand"
       THEN /\ isPanning' = TRUE
            /\ UNCHANGED <<isDrawing, currentPath>>
       ELSE /\ isDrawing' = TRUE
            /\ currentPath' = <<pos>>
            /\ UNCHANGED isPanning
    /\ UNCHANGED <<whiteboard, canvasSize, docVars, viewVars, styleVars>>

handleMouseMove_movesAnchor(s, scaleX, scaleY) ==
    LET pos == getMousePos(s, scaleX, scaleY, zoom, pan) IN
    /\ IF isPanning /\ lastPoint # NULL
       THEN /\ pan' = [x |-> RAdd(pan.x, RMul(RSub(pos.x, lastPoint.x), zoom)),
                       y |-> RAdd(pan.y, RMul(RSub(pos.y, lastPoint.y), zoom))]
            /\ lastPoint' = pos
            /\ UNCHANGED <<zoom, isDrawing, isPanning, currentPath>>
       ELSE IF ~isDrawing \/ lastPoint = NULL
       THEN UNCHANGED <<viewVars, inputVars>>
       ELSE /\ currentPath' = IF currentTool \in Freehand
                              THEN Append(currentPath, pos)
                              ELSE currentPath
            /\ lastPoint' = pos
            /\ UNCHANGED <<viewVars, isDrawing, isPanning>>
    /\ UNCHANGED <<whiteboard, canvasSize, docVars, styleVars>>

\* onMouseMove, the pointer at screen point s
handleMouseMove(s, scaleX, scaleY) ==
    LET pos == getMousePos(s, scaleX, scaleY, zoom, pan) IN
    /\ IF isPanning /\ lastPoint # NULL
       THEN /\ pan' = [x |-> RAdd(pan.x, RMul(RSub(pos.x, lastPoint.x), zoom)),
                       y |-> RAdd(pan.y, RMul(RSub(pos.y, lastPoint.y), zoom))]
            /\ UNCHANGED <<zoom, inputVars>>
       ELSE IF ~isDrawing \/ lastPoint = NULL
       THEN UNCHANGED <<viewVars, inputVars>>
       ELSE /\ currentPath' = IF currentTool \in Freehand
                              THEN Append(currentPath, pos)
                              ELSE currentPath
            /\ lastPoint' = pos
            /\ UNCHANGED <<viewVars, isDrawing, isPanning>>
    /\ UNCHANGED <<whiteboard, canvasSize, docVars, styleVars>>

\* onMouseUp and onMouseLeave
handleMouseUp ==
    /\ IF isPanning
       THEN /\ isPanning' = FALSE
            /\ lastPoint' = NULL
            /\ UNCHANGED <<docVars, isDrawing, currentPath>>
       ELSE IF ~isDrawing
       THEN UNCHANGED <<docVars, inputVars>>
       ELSE /\ IF pathCommits(currentPath)
               THEN LET newElements ==
                            Append(elements,
                                   newElement(currentPath, currentTool,
                                              currentColor, currentSize, elements))
                        h == addToHistory(history, historyIndex, newElements)
                    IN  /\ elements' = newElements
                        /\ history' = h.history
                        /\ historyIndex' = h.historyIndex
               ELSE UNCHANGED docVars
            /\ isDrawing' = FALSE
            /\ currentPath' = <<>>
            /\ lastPoint' = NULL
            /\ UNCHANGED isPanning
    /\ UNCHANGED <<whiteboard, canvasSize, viewVars, styleVars>>

handleUndo_dropsUndone ==
    LET r == undo(history, historyIndex, elements) IN
    /\ historyIndex' = r.historyIndex
    /\ elements' = r.elements
    /\ history' = Slice0(history, r.historyIndex + 1)
    /\ UNCHANGED <<whiteboard, canvasSize, viewVars, inputVars, styleVars>>

\* the Undo button's onClick
handleUndo ==
    LET r == undo(history, historyIndex, elements) IN
    /\ historyIndex' = r.historyIndex
    /\ elements' = r.elements
    /\ UNCHANGED <<whiteboard, canvasSize, history, viewVars, inputVars, styleVars>>

\* the Redo button's onClick
handleRedo ==
    LET r == redo(history, historyIndex, elements) IN
    /\ historyIndex' = r.historyIndex
    /\ elements' = r.elements
    /\ UNCHANGED <<whiteboard, canvasSize, history, viewVars, inputVars, styleVars>>

clearCanvas_wipesHistory ==
    /\ elements' = <<>>
    /\ history' = << <<>> >>
    /\ historyIndex' = 0
    /\ UNCHANGED <<whiteboard, canvasSize, viewVars, inputVars, styleVars>>

clearCanvas_noHistory ==
    /\ elements' = <<>>
    /\ UNCHANGED <<whiteboard, canvasSize, history, historyIndex, viewVars, inputVars, styleVars>>

\* the Clear button's onClick
clearCanvas ==
    LET h == addToHistory(history, historyIndex, <<>>) IN
    /\ elements' = <<>>
    /\ history' = h.history
    /\ historyIndex' = h.historyIndex
    /\ UNCHANGED <<whiteboard, canvasSize, viewVars, inputVars, styleVars>>

\* a tool button's onClick
setCurrentTool(t) ==
    /\ currentTool' = t
    /\ UNCHANGED <<whiteboard, canvasSize, docVars, viewVars, inputVars, currentColor, currentSize>>

\* a colour swatch's onClick
setCurrentColor(c) ==
    /\ currentColor' = c
    /\ UNCHANGED <<whiteboard, canvasSize, docVars, viewVars, inputVars, currentTool, currentSize>>

\* the size slider's onChange
setCurrentSize(n) ==
    /\ currentSize' = n
    /\ UNCHANGED <<whiteboard, canvasSize, docVars, viewVars, inputVars, currentTool, currentColor>>

\* the "-" button's onClick
handleZoomOut_commits ==
    LET h == addToHistory(history, historyIndex, elements) IN
    /\ zoom' = zoomOut(zoom)
    /\ history' = h.history
    /\ historyIndex' = h.historyIndex
    /\ UNCHANGED <<whiteboard, canvasSize, elements, pan, inputVars, styleVars>>

handleZoomOut ==
    /\ zoom' = zoomOut(zoom)
    /\ UNCHANGED <<whiteboard, canvasSize, docVars, pan, inputVars, styleVars>>

\* the "+" button's onClick
handleZoomIn ==
    /\ zoom' = zoomIn(zoom)
    /\ UNCHANGED <<whiteboard, canvasSize, docVars, pan, inputVars, styleVars>>

\* the "100%" button's onClick
handleResetView ==
    /\ zoom' = One
    /\ pan' = Pt(Zero, Zero)
    /\ UNCHANGED <<whiteboard, canvasSize, docVars, inputVars, styleVars>>

\* the Save button's onClick, up to the await: one onSave call, left pending
handleSave ==
    /\ saveCalls' = Append(saveCalls,
                           [whiteboard |-> updatedWhiteboard(whiteboard, elements, zoom,
                                                             pan, canvasSize, now),
                            outcome |-> "pending"])
    /\ UNCHANGED <<whiteboard, canvasSize, docVars, viewVars, inputVars, styleVars>>

\* the i-th onSave call resolves: the store holds the record, the host's list
\* is updated and the editor is re-rendered with the saved record as its prop
onSaveResolved(i) ==
    /\ saveCalls[i].outcome = "pending"
    /\ saveCalls' = [saveCalls EXCEPT ![i].outcome = "resolved"]
    /\ whiteboard' = [saveCalls[i].whiteboard EXCEPT !.updatedAt = now]
    /\ UNCHANGED <<canvasSize, docVars, viewVars, inputVars, styleVars>>

onSaveRejected_reopens(i) ==
    /\ saveCalls[i].outcome = "pending"
    /\ saveCalls' = [saveCalls EXCEPT ![i].outcome = "rejected"]
    /\ elements' = whiteboard.content.elements
    /\ history' = <<whiteboard.content.elements>>
    /\ historyIndex' = 0
    /\ UNCHANGED <<whiteboard, canvasSize, viewVars, inputVars, styleVars>>

\* the i-th onSave call rejects: the await in handleSave throws, nothing catches
\* it and no state is set
onSaveRejected(i) ==
    /\ saveCalls[i].outcome = "pending"
    /\ saveCalls' = [saveCalls EXCEPT ![i].outcome = "rejected"]
    /\ UNCHANGED <<whiteboard, canvasSize, docVars, viewVars, inputVars, styleVars>>

\* the ResizeObserver callback: the canvas takes the container's size.  The
\* callback is the one created at mount, and so is the redrawCanvas it calls:
\* it repaints the elements of the first render.
updateCanvasSize(size) ==
    /\ canvasSize' = size
    /\ UNCHANGED <<whiteboard, docVars, viewVars, inputVars, styleVars>>

-----------------------------------------------------------------------------
(* The environment: which events arrive, within the bounds of the exploration, *)
(* and what they do to the history variables                                  *)

\* A pointer-up that would commit an element
WouldCommit == ~isPanning /\ isDrawing /\ pathCommits(currentPath)

\* the scenario after a pointer-up ends the gesture in progress
ScenarioAfterUp ==
    IF ~Dragged THEN scenario
    ELSE IF /\ scenario.on
            /\ scenario.undos = 0
            /\ scenario.gestures < MaxHistory
            /\ CleanDrag(Freehand \cup ShapeTools)
    THEN [scenario EXCEPT !.gestures = @ + 1]
    ELSE OffScenario

ScenarioAfterUndo ==
    IF scenario.on /\ scenario.undos < scenario.gestures
    THEN [scenario EXCEPT !.undos = @ + 1]
    ELSE OffScenario

\* a view or style change: one more of the session's MaxUiChanges
UiChange ==
    /\ uiChanges < MaxUiChanges
    /\ uiChanges' = uiChanges + 1

\* a click on a button outside the canvas
Click == UNCHANGED gesture

\* the redraw effect, run after a render in which elements, zoom or pan changed
redrawEffect ==
    painted' = IF <<elements', zoom', pan'>> # <<elements, zoom, pan>>
               THEN Paint(elements', zoom', pan', now')
               ELSE painted

\* the render after a handler: the redraw effect runs, no time passes
Rendered == UNCHANGED <<saveCalls, now>> /\ redrawEffect

\* the render after a handler that sets a fresh pan object: the effect always runs
RenderedAfresh == UNCHANGED <<saveCalls, now>> /\ painted' = Paint(elements', zoom', pan', now')

MouseDown ==
    \E s \in ScreenPoints, sc \in ScaleChoices :
        /\ handleMouseDown(s, sc, sc)
        /\ gesture' = IF ~isPanning /\ ~isDrawing
                      THEN CleanGesture(getMousePos(s, sc, sc, zoom, pan))
                      ELSE OtherGesture(FALSE)
        /\ Rendered /\ UNCHANGED <<scenario, uiChanges>>

\* a pointer-move that does not pan the view
Move ==
    \E s \in ScreenPoints, sc \in ScaleChoices :
        /\ ~(isPanning /\ lastPoint # NULL)
        /\ Clean => Len(gesture.pts) <= MaxMoves
        /\ Len(currentPath) <= MaxMoves
        /\ handleMouseMove(s, sc, sc)
        /\ gesture' = IF Clean
                      THEN [gesture EXCEPT
                              !.pts = Append(@, getMousePos(s, sc, sc, zoom, pan))]
                      ELSE IF gesture.open THEN OtherGesture(TRUE)
                      ELSE gesture
        /\ Rendered /\ UNCHANGED <<scenario, uiChanges>>

\* a pointer-move that pans the view
PanMove ==
    \E s \in ScreenPoints, sc \in ScaleChoices :
        /\ isPanning /\ lastPoint # NULL
        /\ Clean => Len(gesture.pts) <= MaxMoves
        /\ handleMouseMove(s, sc, sc)
        /\ gesture' = IF Clean
                      THEN [gesture EXCEPT
                              !.pts = Append(@, getMousePos(s, sc, sc, zoom, pan))]
                      ELSE OtherGesture(TRUE)
        /\ UiChange
        /\ Rendered /\ UNCHANGED scenario

\* a pointer-up or pointer-leave
PointerUp ==
    /\ WouldCommit => historyIndex + 2 <= MaxHistory
    /\ handleMouseUp
    /\ gesture' = NoGesture
    /\ Rendered /\ UNCHANGED uiChanges

MouseUp == PointerUp /\ UNCHANGED scenario
MouseLeave == PointerUp /\ UNCHANGED scenario

Undo == handleUndo /\ Click /\ Rendered /\ UNCHANGED <<scenario, uiChanges>>

Redo == handleRedo /\ Click /\ Rendered /\ UNCHANGED <<scenario, uiChanges>>

Clear ==
    /\ historyIndex + 2 <= MaxHistory
    /\ clearCanvas
    /\ Click
    /\ Rendered /\ UNCHANGED <<scenario, uiChanges>>

SetTool ==
    \E t \in ToolChoices :
        /\ setCurrentTool(t)
        /\ gesture' = IF gesture.open /\ t # currentTool
                      THEN OtherGesture(Dragged)
                      ELSE gesture
        /\ Rendered /\ UNCHANGED <<scenario, uiChanges>>

SetColor ==
    \E c \in ColorChoices :
        setCurrentColor(c) /\ UiChange /\ Click /\ Rendered /\ UNCHANGED scenario

SetSize ==
    \E n \in SizeChoices :
        setCurrentSize(n) /\ UiChange /\ Click /\ Rendered /\ UNCHANGED scenario

ZoomOut == handleZoomOut /\ UiChange /\ Click /\ Rendered /\ UNCHANGED scenario

ZoomIn == handleZoomIn /\ UiChange /\ Click /\ Rendered /\ UNCHANGED scenario

ResetView ==
    handleResetView /\ UiChange /\ Click /\ RenderedAfresh /\ UNCHANGED scenario

\* With a mouse, a button outside the canvas is reached only after the pointer
\* has left the canvas (onMouseLeave), and a pointer-down follows the pointer-up
\* of the gesture before it.
MouseOnly == ~gesture.open

-----------------------------------------------------------------------------
(* Spec: drawing, undo/redo/clear and tool changes, driven by a mouse *)

Next ==
    \/ MouseOnly /\ MouseDown
    \/ Move
    \/ MouseUp
    \/ MouseLeave
    \/ MouseOnly /\ Undo
    \/ MouseOnly /\ Redo
    \/ MouseOnly /\ Clear
    \/ MouseOnly /\ SetTool

Spec == Init /\ [][Next]_vars

-----------------------------------------------------------------------------
(* SpecView: Spec with the view and style controls, on shorter histories *)

\* longest history and most moves per gesture under SpecView
ViewMaxHistory == 2
ViewMaxMoves == 1
\* history entries above the first plus view and style changes, per session
ViewMaxChanges == 2
MaxPanMoves == 2

\* a pointer-up commits only while the history is short
ViewCommitBound ==
    WouldCommit => /\ historyIndex + 2 <= ViewMaxHistory
                   /\ historyIndex + 1 + uiChanges <= ViewMaxChanges
\* a view or style change is made only while the session's budget lasts
ViewChangeBound == Len(history) + uiChanges <= ViewMaxChanges
\* a gesture records only so many pointer-moves, fewer the longer the history
ViewMoveBound == Clean => Len(gesture.pts) + historyIndex <= ViewMaxMoves

NextView ==
    \/ MouseOnly /\ MouseDown
    \/ ViewMoveBound /\ Move
    \/ ViewMoveBound /\ ViewChangeBound /\ PanMove
    \/ ViewCommitBound /\ MouseUp
    \/ ViewCommitBound /\ MouseLeave
    \/ MouseOnly /\ Undo
    \/ MouseOnly /\ Redo
    \/ MouseOnly /\ historyIndex + 2 <= ViewMaxHistory
                 /\ historyIndex + 1 + uiChanges <= ViewMaxChanges /\ Clear
    \/ MouseOnly /\ SetTool
    \/ MouseOnly /\ ViewChangeBound /\ SetColor
    \/ MouseOnly /\ ViewChangeBound /\ SetSize
    \/ MouseOnly /\ ViewChangeBound /\ ZoomOut
    \/ MouseOnly /\ ViewChangeBound /\ ZoomIn
    \/ MouseOnly /\ ViewChangeBound /\ ResetView

SpecView == Init /\ [][NextView]_vars

-----------------------------------------------------------------------------
(* SpecScenario: a session of drawing gestures followed by undos, counted *)

ScenarioUp == PointerUp /\ scenario' = ScenarioAfterUp

ScenarioUndo ==
    /\ handleUndo
    /\ Click
    /\ scenario' = ScenarioAfterUndo
    /\ Rendered /\ UNCHANGED uiChanges

NextScenario ==
    \/ MouseOnly /\ MouseDown
    \/ Move
    \/ ScenarioUp
    \/ MouseOnly /\ ScenarioUndo
    \/ MouseOnly /\ SetTool

SpecScenario == Init /\ [][NextScenario]_vars

-----------------------------------------------------------------------------
(* SpecZoom: the view controls alone, any number of zoom steps *)

ViewZoomOut == handleZoomOut /\ Click /\ Rendered /\ UNCHANGED <<scenario, uiChanges>>

ViewZoomIn == handleZoomIn /\ Click /\ Rendered /\ UNCHANGED <<scenario, uiChanges>>

ViewReset ==
    handleResetView /\ Click /\ RenderedAfresh /\ UNCHANGED <<scenario, uiChanges>>

NextZoom ==
    \/ MouseOnly /\ MouseDown
    \/ ViewMoveBound /\ PanMove
    \/ MouseUp
    \/ MouseLeave
    \/ MouseOnly /\ SetTool
    \/ MouseOnly /\ ViewZoomOut
    \/ MouseOnly /\ ViewZoomIn
    \/ MouseOnly /\ ViewReset

SpecZoom == Init /\ [][NextZoom]_vars

-----------------------------------------------------------------------------
(* SpecAny: pointer events and tool changes in any order.  A tool can be      *)
(* changed from the keyboard while a mouse button is held, and a second       *)
(* button can be pressed before the first is released.                        *)

\* the tool buttons pressed under SpecAny
AnyToolChoices == {"pen", "hand", "laser"}

SetAnyTool ==
    \E t \in AnyToolChoices :
        /\ setCurrentTool(t)
        /\ gesture' = IF gesture.open /\ t # currentTool
                      THEN OtherGesture(Dragged)
                      ELSE gesture
        /\ Rendered /\ UNCHANGED <<scenario, uiChanges>>

NextAny ==
    \/ MouseDown
    \/ ViewMoveBound /\ Move
    \/ ViewMoveBound /\ ViewChangeBound /\ PanMove
    \/ ViewCommitBound /\ MouseUp
    \/ ViewCommitBound /\ MouseLeave
    \/ SetAnyTool

SpecAny == Init /\ [][NextAny]_vars

-----------------------------------------------------------------------------
(* SpecSave: drawing, zooming and resizing, with saves that resolve or reject *)

\* the stroke a session leaves when the tool is changed to laser between the
\* last pointer-move and the pointer-up, as an earlier session saved it
LoadedLaser == [LoadedStroke EXCEPT !.type = "laser"]

\* records saved by earlier sessions
SavedWhiteboards == Whiteboards \cup {Board(<<LoadedLaser>>)}

InitSave == \E wb \in SavedWhiteboards : Opened(wb)

Save ==
    /\ Len(saveCalls) < MaxSaves
    /\ handleSave
    /\ UNCHANGED <<now, painted, gesture, scenario, uiChanges>>

SaveResolved ==
    \E i \in 1..Len(saveCalls) :
        onSaveResolved(i) /\ UNCHANGED <<now, painted, gesture, scenario, uiChanges>>

SaveRejected ==
    \E i \in 1..Len(saveCalls) :
        onSaveRejected(i) /\ UNCHANGED <<now, painted, gesture, scenario, uiChanges>>

Resize ==
    \E size \in ContainerSizes :
        /\ updateCanvasSize(size)
        \* redrawCanvas(context) of the mount effect's closure: the first
        \* render's elements, zoom and pan
        /\ painted' = Paint(At(history, 0), One, Pt(Zero, Zero), now)
        /\ UNCHANGED <<saveCalls, now, gesture, scenario, uiChanges>>

\* view changes, saves and resizes so far in the session
OtherChanges ==
    uiChanges + Len(saveCalls) + (IF canvasSize = ContainerSize THEN 0 ELSE 1)

\* the session's budget of ViewMaxChanges commits, view changes, saves and resizes
SaveCommitBound ==
    WouldCommit => /\ historyIndex + 2 <= ViewMaxHistory
                   /\ historyIndex + 1 + OtherChanges <= ViewMaxChanges
SaveChangeBound == Len(history) + OtherChanges <= ViewMaxChanges

NextSave ==
    \/ MouseOnly /\ MouseDown
    \/ ViewMoveBound /\ Move
    \/ SaveCommitBound /\ MouseUp
    \/ SaveCommitBound /\ MouseLeave
    \/ MouseOnly /\ SaveChangeBound /\ ZoomIn
    \/ MouseOnly /\ SaveChangeBound /\ Save
    \/ SaveResolved
    \/ SaveRejected
    \/ SaveChangeBound /\ Resize

SpecSave == InitSave /\ [][NextSave]_vars

-----------------------------------------------------------------------------
(* SpecPan: gestures of several pointer-moves with the hand tool, at any zoom *)

\* a pointer-move that pans the view, one of the session's MaxPanMoves
PanDrag ==
    \E s \in ScreenPoints, sc \in ScaleChoices :
        /\ isPanning /\ lastPoint # NULL
        /\ uiChanges < MaxPanMoves
        /\ handleMouseMove(s, sc, sc)
        /\ gesture' = IF Clean
                      THEN [gesture EXCEPT
                              !.pts = Append(@, getMousePos(s, sc, sc, zoom, pan))]
                      ELSE OtherGesture(TRUE)
        /\ uiChanges' = uiChanges + 1
        /\ Rendered /\ UNCHANGED scenario

NextPan ==
    \/ MouseOnly /\ MouseDown
    \/ PanDrag
    \/ MouseUp
    \/ MouseLeave
    \/ MouseOnly /\ SetTool
    \/ MouseOnly /\ ViewZoomIn

SpecPan == Init /\ [][NextPan]_vars

-----------------------------------------------------------------------------
(* SpecRender: the canvas is repainted, on view changes and on resizes, over *)
(* stored documents of which one stroke's path text is not JSON              *)

\* a stored pen stroke whose content is not the JSON text of a point list
CorruptStroke == [LoadedStroke EXCEPT !.content = Malformed]

RenderWhiteboards ==
    { Board(els) : els \in {<<LoadedStroke>>,
                            <<CorruptStroke, LoadedStroke>>,
                            <<LoadedStroke, CorruptStroke>>} }

InitRender == \E wb \in RenderWhiteboards : Opened(wb)

NextRender ==
    \/ ViewZoomOut
    \/ ViewZoomIn
    \/ ViewReset
    \/ Resize

SpecRender == InitRender /\ [][NextRender]_vars

-----------------------------------------------------------------------------
(* SpecLaser: time passes over a whiteboard that holds a laser mark, and the *)
(* canvas is repainted when the view changes                                 *)

\* milliseconds between two readings of the clock
ClockSteps == {500}

\* a laser mark stamped at time t
Laser(t) ==
    [f \in DOMAIN LoadedLaser \cup {"timestamp"} |->
        IF f = "timestamp" THEN t ELSE LoadedLaser[f]]

\* the stamps of the stored laser marks: 5 s, 1 s and 0 s before the editor opens
LaserStamps == {OpenTime - 5000, OpenTime - 1000, OpenTime}

LaserWhiteboards ==
    {Board(<<Laser(t)>>) : t \in LaserStamps} \cup {Board(<<LoadedLaser>>)}

InitLaser == \E wb \in LaserWhiteboards : Opened(wb)

Tick ==
    \E d \in ClockSteps :
        /\ now + d <= OpenTime + MaxTicks * d
        /\ now' = now + d
        /\ UNCHANGED <<whiteboard, canvasSize, docVars, viewVars, inputVars, styleVars,
                       saveCalls, painted, gesture, scenario, uiChanges>>

NextLaser ==
    \/ Tick
    \/ ViewZoomOut
    \/ ViewZoomIn
    \/ ViewReset

SpecLaser == InitLaser /\ [][NextLaser]_vars

-----------------------------------------------------------------------------
(* SpecTools: Spec with the text, sticky, laser and eraser tools *)

\* the tool buttons pressed under SpecTools
OtherToolChoices == {"pen", "text", "sticky", "laser", "eraser"}

SetOtherTool ==
    \E t \in OtherToolChoices :
        /\ setCurrentTool(t)
        /\ gesture' = IF gesture.open /\ t # currentTool
                      THEN OtherGesture(Dragged)
                      ELSE gesture
        /\ Rendered /\ UNCHANGED <<scenario, uiChanges>>

NextTools ==
    \/ MouseOnly /\ MouseDown
    \/ Move
    \/ MouseUp
    \/ MouseLeave
    \/ MouseOnly /\ Undo
    \/ MouseOnly /\ Redo
    \/ MouseOnly /\ SetOtherTool

SpecTools == Init /\ [][NextTools]_vars

-----------------------------------------------------------------------------
(* Properties *)

\* the step is a commit: a pointer-up that adds an element, or a clear
CommitStep == (WouldCommit /\ handleMouseUp) \/ clearCanvas

\* the step is the pointer-up or pointer-leave that ends the open gesture
GestureEnds == gesture.open /\ gesture' = NoGesture

\* history with the entries beyond the pointer dropped and `snapshot` appended
Committed(snapshot) == Append(SubSeq(history, 1, historyIndex + 1), snapshot)

\* C1: in every state reachable by commits (strokes, clear), undo and redo the
\* history is non-empty and 0 <= historyIndex <= length(history) - 1.
C1_HistoryIndexInRange ==
    /\ Len(history) >= 1
    /\ 0 <= historyIndex
    /\ historyIndex <= Len(history) - 1

\* two commits, then one undo
C1_Witness == Len(history) = 3 /\ historyIndex = 1

\* C2: undo() at historyIndex = 0 and redo() at historyIndex = length - 1 change
\* neither historyIndex, nor the history, nor the element list.
C2_BoundaryNoOps ==
    [][/\ (handleUndo /\ historyIndex = 0)
            => UNCHANGED <<historyIndex, history, elements>>
       /\ (handleRedo /\ historyIndex = Len(history) - 1)
            => UNCHANGED <<historyIndex, history, elements>>]_vars

\* undone to the bottom of a three-entry history: one more undo is the no-op
C2_Witness ==
    /\ Len(history) = 3
    /\ historyIndex = 0
    /\ elements = whiteboard.content.elements
    /\ At(history, 2) # At(history, 0)

\* C3: a commit at historyIndex = p drops every entry above p, appends the new
\* snapshot, leaves the pointer on the new last index (length p + 2), and a
\* redo() right after it changes nothing.
C3_CommitTruncates ==
    [][CommitStep =>
        /\ history' = Committed(elements')
        /\ Len(history') = historyIndex + 2
        /\ historyIndex' = Len(history') - 1
        /\ redo(history', historyIndex', elements')
             = [historyIndex |-> historyIndex', elements |-> elements']]_vars

\* a stroke is about to be committed with redo-able entries above the pointer
C3_Witness == historyIndex < Len(history) - 1 /\ WouldCommit /\ gesture.open

\* C4: the current element list is history[historyIndex], whatever gestures,
\* clear, undo, redo, pan, zoom and tool changes came before.
C4_CurrentIsHistoryEntry == elements = At(history, historyIndex)

\* after a commit and an undo, with the view zoomed
C4_Witness == historyIndex < Len(history) - 1 /\ zoom # One /\ currentTool # "pen"

\* C5: at open the history is the persisted element list alone, with
\* historyIndex = 0, and history[0] is that list in every later state.
C5_FirstEntryIsOpenTimeList ==
    /\ history = <<whiteboard.content.elements>>
    /\ historyIndex = 0
    /\ [](At(history, 0) = whiteboard.content.elements)

\* a loaded document, cleared and drawn on
C5_Witness ==
    /\ whiteboard.content.elements # <<>>
    /\ Len(history) = 3
    /\ At(history, 1) = <<>>
    /\ At(history, 2) # <<>>

\* C6: clear() empties the element list, commits the empty list as one new
\* history entry above the pointer, and one undo() after it gives back the
\* element list that was current before the clear.
C6_ClearIsUndoableCommit ==
    [][clearCanvas =>
        /\ elements' = <<>>
        /\ history' = Committed(<<>>)
        /\ historyIndex' = historyIndex + 1
        /\ undo(history', historyIndex', elements').elements = elements]_vars

\* a non-empty document has just been cleared
C6_Witness ==
    /\ elements = <<>>
    /\ historyIndex = Len(history) - 1
    /\ historyIndex >= 1
    /\ At(history, historyIndex - 1) # <<>>

\* C7: a pointer-down followed at once by pointer-up or pointer-leave changes
\* neither elements, nor history, nor historyIndex, whatever the tool.
C7_ClickCommitsNothing ==
    [][(GestureEnds /\ ~Dragged) => UNCHANGED docVars]_vars

\* the pointer is down with a drawing tool and has not moved
C7_Witness == gesture.open /\ ~Dragged /\ isDrawing /\ currentTool = "pen"

RAbs(a) == <<Abs(a[1]), a[2]>>

\* the bounding box of a down-point d and an up-point u
BBoxPosition(d, u) == Pt(RMin(d.x, u.x), RMin(d.y, u.y))
BBoxSize(d, u) ==
    [width |-> RAbs(RSub(u.x, d.x)), height |-> RAbs(RSub(u.y, d.y))]

\* C9: a gesture with a shape tool from down-point D to up-point U commits one
\* shape element whose position and size are the bounding box of D and U
\* (a rectangle from (10,10) to (110,60): position {10,10}, size {100,50}).
C9_ShapeCommit ==
    [][(GestureEnds /\ CleanDrag(ShapeTools)) =>
        /\ Len(elements') = Len(elements) + 1
        /\ LET e == elements'[Len(elements')]
               d == gesture.pts[1]
               u == gesture.pts[Len(gesture.pts)]
           IN  /\ e.type = "shape"
               /\ e.position = BBoxPosition(d, u)
               /\ e.size = BBoxSize(d, u)
        /\ Len(history') = historyIndex + 2]_vars

\* undo applied n times: the resulting element list
RECURSIVE undoTimes(_, _, _, _)
undoTimes(h, hi, els, n) ==
    IF n = 0 THEN els
    ELSE LET r == undo(h, hi, els)
         IN  undoTimes(h, r.historyIndex, r.elements, n - 1)

\* C10: from open, every completed stroke or shape gesture adds one history
\* entry (lengths 1, 2, 3 for an empty document, a stroke, a rectangle), and
\* one undo() per completed gesture gives back the open-time element list.
C10_GesturesThenUndos ==
    scenario.on =>
        /\ Len(history) = 1 + scenario.gestures
        /\ undoTimes(history, historyIndex, elements,
                     scenario.gestures - scenario.undos)
             = whiteboard.content.elements

\* the canvas pixel under the pointer at screen point s
CanvasPixel(s, scale) == Pt(RMul(RInt(s.x), scale), RMul(RInt(s.y), scale))

\* C11: getMousePos is the exact inverse of the renderer's transform
\* screen = zoom * (doc + pan): for every zoom > 0, pan and screen point s it
\* returns s*scale/zoom - pan, and the renderer paints that point at s again.
C11_InverseOfRenderer ==
    \A s \in ScreenPoints, sc \in ScaleChoices :
        LET doc == getMousePos(s, sc, sc, zoom, pan)
            px == CanvasPixel(s, sc)
        IN  /\ doc = Pt(RSub(RDiv(px.x, zoom), pan.x), RSub(RDiv(px.y, zoom), pan.y))
            /\ redrawCanvasTransform(doc, zoom, pan) = px

\* C12: zoom stays in [0.1, 3.0] under any sequence of zoom-in, zoom-out and
\* reset-view steps from the zoom the editor was opened with.
C12_ZoomInRange ==
    /\ ~RLess(zoom, Rat(1, 10))
    /\ ~RLess(RInt(3), zoom)

\* zoomed all the way out on a panned view
C12_Witness == zoom = Rat(1, 10) /\ pan # Pt(Zero, Zero)

\* a step of a complete pan gesture: an event of a gesture made with the hand tool
PanGestureStep ==
    /\ currentTool = "hand"
    /\ \/ ~gesture.open /\ gesture'.open
       \/ Clean /\ gesture' # gesture

\* a change of tool, colour or stroke size
StyleStep ==
    \/ \E t \in Tools : setCurrentTool(t)
    \/ \E c \in ColorChoices : setCurrentColor(c)
    \/ \E n \in SizeChoices : setCurrentSize(n)

\* C13: a pan gesture, a zoom change, a reset view and a change of tool, colour
\* or size change neither elements, nor history, nor historyIndex; undo, redo
\* and clear change neither zoom nor pan.
C13_ViewAndDocumentAreSeparate ==
    [][/\ (PanGestureStep \/ handleZoomOut \/ handleZoomIn \/ handleResetView
            \/ StyleStep) => UNCHANGED docVars
       /\ (handleUndo \/ handleRedo \/ clearCanvas) => UNCHANGED viewVars]_vars

\* a document with undo history, viewed panned after a pan gesture
C13_Witness ==
    /\ pan # Pt(Zero, Zero)
    /\ ~gesture.open
    /\ Len(history) = 2
    /\ historyIndex = 0

\* the input machine is Idle
Idle ==
    /\ ~isDrawing
    /\ ~isPanning
    /\ currentPath = <<>>
    /\ lastPoint = NULL

\* C14: after any sequence of pointer-down, move, up, leave events and tool
\* changes, a pointer-up or pointer-leave (the same handler) leaves the input
\* machine Idle: not drawing, not panning, path empty, anchor cleared.
C14_PointerUpLeavesIdle == [][handleMouseUp => Idle']_vars

\* the elements of the record handed over by the i-th onSave call
SavedElements(i) == saveCalls[i].whiteboard.content.elements

\* C15: the content handed to onSave by save() never holds an element of type
\* laser, whatever the document holds (laser elements loaded at open included).
C15_NoLaserPersisted ==
    \A i \in 1..Len(saveCalls) :
        \A k \in 1..Len(SavedElements(i)) : SavedElements(i)[k].type # "laser"

\* the age, at the last repaint, of the stamped laser mark elements[k]
AgeAtRepaint(k) == painted.at - elements[k].timestamp

\* C16: in a repaint at time now, a laser mark with now - timestamp > 3000 ms
\* is not painted, and one with 0 < now - timestamp < 3000 ms is painted with
\* opacity 1 - age/3000, strictly between 0 and 1.
C16_LaserFade ==
    \A k \in 1..Len(elements) :
        (elements[k].type = "laser" /\ "timestamp" \in DOMAIN elements[k]) =>
            LET age == AgeAtRepaint(k)
                mark == painted.marks[k]
            IN  /\ age > 3000 => ~mark.painted
                /\ (0 < age /\ age < 3000) =>
                      /\ mark.painted
                      /\ mark.globalAlpha = RSub(One, Rat(age, 3000))
                      /\ RLess(Zero, mark.globalAlpha)
                      /\ RLess(mark.globalAlpha, One)

\* a mark repainted at age 1500 ms, at half opacity
C16_Witness ==
    /\ Len(elements) = 1
    /\ "timestamp" \in DOMAIN elements[1]
    /\ painted.at > OpenTime
    /\ AgeAtRepaint(1) = 1500
    /\ painted.marks[1] = [painted |-> TRUE, globalAlpha |-> Rat(1, 2)]

\* C17: a completed gesture (pointer-down, then pointer-up) with the text,
\* sticky or laser tool appends one element of that variant (a laser stamped
\* with the current time) and commits one history entry.
C17_TextStickyLaserCommit ==
    [][(GestureEnds /\ Clean /\ currentTool \in {"text", "sticky", "laser"}) =>
        /\ Len(elements') = Len(elements) + 1
        /\ SubSeq(elements', 1, Len(elements)) = elements
        /\ LET e == elements'[Len(elements')]
           IN  /\ e.type = currentTool
               /\ currentTool = "laser" =>
                     ("timestamp" \in DOMAIN e /\ e.timestamp = now)
        /\ history' = Committed(elements')
        /\ historyIndex' = historyIndex + 1]_vars

\* the document point pos lies on the path of the stroke e
OnPath(pos, e) ==
    /\ e.type \in Freehand
    /\ \E k \in 1..Len(JSONparse(e.content)) : JSONparse(e.content)[k] = pos

\* the step is a pointer-down or pointer-move of a gesture made with `tool`
PointerAt(tool) ==
    /\ currentTool = tool
    /\ gesture'.open
    /\ gesture'.clean
    /\ gesture' # gesture

\* C18: with the eraser, a pointer-down or pointer-move on an element removes
\* it from the document at once, and the pointer-up that follows commits one
\* history entry if the gesture removed anything, and none otherwise.
C18_EraserRemovesAndCommits ==
    [][/\ PointerAt("eraser") =>
            LET pos == gesture'.pts[Len(gesture'.pts)]
            IN  \A k \in 1..Len(elements) :
                    OnPath(pos, elements[k]) =>
                        \A j \in 1..Len(elements') : elements'[j] # elements[k]
       /\ (GestureEnds /\ Clean /\ currentTool = "eraser") =>
            /\ elements # At(history, historyIndex) =>
                    (history' = Committed(elements) /\ historyIndex' = historyIndex + 1)
            /\ elements = At(history, historyIndex) => UNCHANGED <<history, historyIndex>>]_vars

\* the step makes an onSave call
SaveCalled == Len(saveCalls') # Len(saveCalls)

\* the step is the rejection of a pending onSave call
SaveRejects ==
    \E i \in 1..Len(saveCalls) :
        /\ Len(saveCalls') = Len(saveCalls)
        /\ saveCalls[i].outcome = "pending"
        /\ saveCalls'[i].outcome = "rejected"

\* C19: save() makes exactly one onSave call, whose record carries the current
\* element list (which is history[historyIndex]), zoom, pan and canvas size and
\* otherwise the fields of the opened record, updatedAt apart; save() changes
\* no state of the editor.
C19_SaveHandsOverCurrentDocument ==
    [][SaveCalled =>
        /\ saveCalls' = Append(saveCalls, saveCalls'[Len(saveCalls')])
        /\ LET call == saveCalls'[Len(saveCalls')]
               handed == call.whiteboard
           IN  /\ handed.content.elements = elements
               /\ elements = At(history, historyIndex)
               /\ handed.content.zoom = zoom
               /\ handed.content.pan = pan
               /\ handed.content.canvasSize = canvasSize
               /\ DOMAIN handed = DOMAIN whiteboard
               /\ DOMAIN handed.content = DOMAIN whiteboard.content
               /\ \A f \in DOMAIN whiteboard \ {"content", "updatedAt"} :
                      handed[f] = whiteboard[f]
        /\ UNCHANGED <<whiteboard, canvasSize, docVars, viewVars, inputVars,
                       styleVars>>]_vars

\* a drawn stroke has been handed over: the saved list is not the opened one
C19_Witness ==
    /\ Len(saveCalls) = 1
    /\ Len(history) = 2
    /\ SavedElements(1) = At(history, 1)
    /\ SavedElements(1) # At(history, 0)
    /\ saveCalls[1].whiteboard.content.canvasSize = ContainerSize

\* C20: when onSave rejects, elements, history, historyIndex, zoom and pan keep
\* the values they had, and the editor goes on taking input: the input machine
\* and the tool selection are untouched as well.
C20_RejectedSaveKeepsDocument ==
    [][SaveRejects => UNCHANGED <<docVars, viewVars, inputVars, styleVars, canvasSize>>]_vars

\* a save was rejected and the document has since been (or was meanwhile) drawn on
C20_Witness ==
    /\ Len(saveCalls) = 1
    /\ saveCalls[1].outcome = "rejected"
    /\ Len(elements) = Len(SavedElements(1)) + 1
    /\ historyIndex = 1

\* an onSave call has not settled yet
SaveInFlight == \E i \in 1..Len(saveCalls) : saveCalls[i].outcome = "pending"

\* C21: while a save is in flight (onSave called, its promise not settled) the
\* editor accepts no further interaction: no second onSave call is made and no
\* edit changes elements, history or historyIndex.
C21_NoInteractionWhileSaving ==
    [][SaveInFlight => (Len(saveCalls') = Len(saveCalls) /\ UNCHANGED docVars)]_vars

\* C22: if a document holds a stroke whose stored path data is malformed, that
\* element alone is dropped: the repaint completes, and every other element of
\* the document is painted as it would be without the malformed one.
C22_MalformedStrokeDroppedAlone ==
    /\ painted.completed
    /\ \A k \in 1..Len(painted.elements) :
          ~drawElementThrows(painted.elements[k]) =>
              /\ k \in DOMAIN painted.marks
              /\ painted.marks[k] = drawElement(painted.elements[k], painted.at)

\* the step repaints the canvas, at a later time, with the element list, zoom,
\* pan and canvas size of the repaint before it
RepaintsTheSame ==
    /\ painted'.at # painted.at
    /\ painted'.elements = painted.elements
    /\ painted'.zoom = painted.zoom
    /\ painted'.pan = painted.pan
    /\ canvasSize' = canvasSize

\* no element of els is a laser mark that carries a timestamp
NoStampedLaser(els) ==
    \A k \in 1..Len(els) :
        ~(els[k].type = "laser" /\ "timestamp" \in DOMAIN els[k]
                                /\ els[k].timestamp # 0)

\* C23 as stated: two repaints with the same element list, zoom, pan and canvas
\* size paint the same elements in the same order with the same opacities, for
\* every document, those holding laser elements included.
C23_RenderDeterministic ==
    [][RepaintsTheSame =>
        (painted'.marks = painted.marks /\ painted'.completed = painted.completed)]_vars

\* C23 amended: two repaints with the same element list, zoom, pan and canvas
\* size paint the same elements in the same order with the same opacities, for
\* every document that holds no laser element carrying a timestamp (a stamped
\* laser mark is painted by its age at the repaint).
C23_RenderDeterministicButStampedLasers ==
    [][(RepaintsTheSame /\ NoStampedLaser(painted.elements)) =>
        (painted'.marks = painted.marks /\ painted'.completed = painted.completed)]_vars

\* an unstamped laser mark has been repainted, with the view it was opened
\* with, after the clock moved on
C23_Witness ==
    /\ painted.at > OpenTime
    /\ painted.elements = <<LoadedLaser>>
    /\ painted.marks[1].painted
    /\ painted.zoom = whiteboard.content.zoom
    /\ painted.pan = whiteboard.content.pan

\* the step is a pointer-move of a clean gesture that pans; Moved is the
\* document-space position getMousePos gave it
PanMoveStep ==
    /\ isPanning /\ lastPoint # NULL
    /\ Clean /\ gesture'.open /\ gesture'.clean
    /\ Len(gesture'.pts) = Len(gesture.pts) + 1
Moved == gesture'.pts[Len(gesture'.pts)]

\* pan' = pan + (pos - anchor) * zoom
PanAddsDelta(pos) ==
    pan' = [x |-> RAdd(pan.x, RMul(RSub(pos.x, lastPoint.x), zoom)),
            y |-> RAdd(pan.y, RMul(RSub(pos.y, lastPoint.y), zoom))]

\* C24 as stated: each pointer-move while panning adds (current position -
\* anchor) * zoom to pan and then sets the anchor to the current position.
C24_PanMoveMovesAnchor ==
    [][PanMoveStep => (PanAddsDelta(Moved) /\ lastPoint' = Moved)]_vars

\* C24 amended: each pointer-move while panning adds (current position -
\* anchor) * zoom to pan and leaves the anchor as it is; the anchor is then the
\* document-space position of the pointer under the new pan, so the next
\* move's delta is measured from this move's position.
C24_PanMoveKeepsAnchor ==
    [][PanMoveStep =>
        /\ PanAddsDelta(Moved)
        /\ lastPoint' = lastPoint
        /\ zoom' = zoom
        /\ lastPoint'.x = RSub(Moved.x, RDiv(RSub(pan'.x, pan.x), zoom))
        /\ lastPoint'.y = RSub(Moved.y, RDiv(RSub(pan'.y, pan.y), zoom))]_vars

\* a pan gesture of two moves, away and back, on a zoomed view: the pan is
\* what it was
C24_Witness ==
    /\ isPanning /\ Clean
    /\ zoom # whiteboard.content.zoom
    /\ Len(gesture.pts) = 3
    /\ gesture.pts[2] # gesture.pts[1]
    /\ lastPoint = gesture.pts[1]
    /\ pan = whiteboard.content.pan

\* C25: after every change of the element list, the zoom, the pan or the size
\* of the canvas surface, the most recent full repaint has painted the current
\* element list with the current zoom and pan.
C25_CanvasShowsCurrentState ==
    /\ painted.elements = elements
    /\ painted.zoom = zoom
    /\ painted.pan = pan

\* C26: history entries are immutable snapshots: undo and redo leave the
\* history sequence unchanged, and no step (a commit included) changes an entry
\* at an index <= the historyIndex before it.
C26_HistoryEntriesImmutable ==
    [][/\ (handleUndo \/ handleRedo) => history' = history
       /\ Len(history') >= historyIndex + 1
       /\ \A i \in 1..(historyIndex + 1) : history'[i] = history[i]]_vars

\* two strokes drawn on a stored document and both undone: the three snapshots
\* are still there
C26_Witness ==
    /\ whiteboard.content.elements # <<>>
    /\ Len(history) = 3
    /\ historyIndex = 0
    /\ Len(At(history, 1)) = 2
    /\ Len(At(history, 2)) = 3
    /\ elements = At(history, 0)

\* the element at array position i (0-based) of els has zIndex i
ZIndexIsPosition(els) == \A k \in 1..Len(els) : els[k].zIndex = k - 1

\* C27: in every snapshot reachable from a document opened empty (the current
\* element list and every history entry, also after undo, redo and clear), the
\* element at array position i has zIndex i.
C27_ZIndexIsArrayPosition ==
    whiteboard.content.elements = <<>> =>
        /\ ZIndexIsPosition(elements)
        /\ \A h \in 1..Len(history) : ZIndexIsPosition(history[h])

\* two strokes drawn on a document opened empty, the second undone
C27_Witness ==
    /\ whiteboard.content.elements = <<>>
    /\ Len(history) = 3
    /\ Len(At(history, 2)) = 2
    /\ historyIndex = 1
    /\ Len(elements) = 1

\* C28: in every state reachable by pointer-down, move, up, leave events and
\* tool changes, a second pointer-down before the first gesture's pointer-up
\* included, isPanning and isDrawing are never both true.
C28_AtMostOneGestureState == ~(isPanning /\ isDrawing)

\* the element a committing pointer-up appends
CommittedElement == elements'[Len(elements')]

\* C29: every element committed by a pointer-up, whatever the tool changes
\* between the pointer events, has a type among pen, highlighter, spray and
\* calligraphy, and a type drawElement paints.
C29_CommittedTypeIsFreehand ==
    [][(WouldCommit /\ handleMouseUp) =>
        /\ CommittedElement.type \in Freehand
        /\ CommittedElement.type \in PaintedTypes]_vars

\* the editor's pointer and element list, as undo() and redo() return them
Here == [historyIndex |-> historyIndex, elements |-> elements]

\* C30: undo and redo are mutual inverses: with historyIndex > 0, undo()
\* followed by redo() restores elements and historyIndex, and with historyIndex
\* < length(history) - 1, redo() followed by undo() does; neither touches history.
C30_UndoRedoInverse ==
    /\ historyIndex > 0 =>
          LET u == undo(history, historyIndex, elements)
          IN  redo(history, u.historyIndex, u.elements) = Here
    /\ historyIndex < Len(history) - 1 =>
          LET r == redo(history, historyIndex, elements)
          IN  undo(history, r.historyIndex, r.elements) = Here

\* in the middle of a history of three different snapshots: both undo and redo
\* change the element list
C30_Witness ==
    /\ Len(history) = 3
    /\ historyIndex = 1
    /\ undo(history, historyIndex, elements).elements # elements
    /\ redo(history, historyIndex, elements).elements # elements

====
